---- MODULE Spec2Model ----
(***************************************************************************)
(* Mortgage refinance calculator (SvelteKit page).                         *)
(*                                                                         *)
(* Two revisions of the page script are modelled side by side:             *)
(*   - src/src/routes/+page.svelte  : pmt, pv, calculate (positional)      *)
(*   - src/unnamed/part_002         : calculateMonthlyPayment,             *)
(*                                    calculatePresentValue, calculate     *)
(*                                    (record argument; calculateResults   *)
(*                                    here, the name calculate being taken)*)
(*                                                                         *)
(* Numbers.  A JavaScript number is modelled as a signed decimal           *)
(* fixed-point number with 4 * FracLimbs fractional digits; every          *)
(* operation truncates its exact result toward zero at that precision.     *)
(* The magnitude, scaled by Base^FracLimbs, is held as a little-endian     *)
(* sequence of limbs in base 10^4 without leading zero limbs (TLC's        *)
(* integers are 32 bits wide).  The IEEE values NaN, Infinity and          *)
(* -Infinity are kept; the sign of zero is not (0 is +0).  The rounding    *)
(* error of a result is of the order of 10^-(4*FracLimbs) times the        *)
(* magnitudes involved, comparable to or smaller than that of a double.    *)
(*                                                                         *)
(* Text (the value of an <input>) is a sequence of one-character strings.  *)
(***************************************************************************)
EXTENDS Integers, Sequences, FiniteSets, TLC

(***************************************************************************)
(* Natural numbers as limb sequences                                       *)
(***************************************************************************)
Base == 10 * 1000

\* number of fractional limbs of a number (precision of the arithmetic)
FracLimbs == 4

RECURSIVE NStrip(_)
NStrip(a) ==
    IF a = <<>> THEN a
    ELSE IF a[Len(a)] = 0 THEN NStrip(SubSeq(a, 1, Len(a) - 1))
    ELSE a

Limb(a, i) == IF i <= Len(a) THEN a[i] ELSE 0

RECURSIVE NatLimbs(_)
NatLimbs(k) == IF k = 0 THEN <<>> ELSE <<k % Base>> \o NatLimbs(k \div Base)

RECURSIVE NAddC(_, _, _, _)
NAddC(a, b, i, c) ==
    IF i > Len(a) /\ i > Len(b)
    THEN (IF c = 0 THEN <<>> ELSE <<c>>)
    ELSE LET t == Limb(a, i) + Limb(b, i) + c
         IN  <<t % Base>> \o NAddC(a, b, i + 1, t \div Base)

NAdd(a, b) == NAddC(a, b, 1, 0)

RECURSIVE NSubB(_, _, _, _)
NSubB(a, b, i, br) ==
    IF i > Len(a) THEN <<>>
    ELSE LET t == Limb(a, i) - Limb(b, i) - br
         IN  IF t < 0 THEN <<t + Base>> \o NSubB(a, b, i + 1, 1)
             ELSE <<t>> \o NSubB(a, b, i + 1, 0)

\* a - b for a >= b
NSub(a, b) == NStrip(NSubB(a, b, 1, 0))

RECURSIVE NCmpAt(_, _, _)
NCmpAt(a, b, i) ==
    IF i = 0 THEN 0
    ELSE IF a[i] # b[i] THEN (IF a[i] < b[i] THEN -1 ELSE 1)
    ELSE NCmpAt(a, b, i - 1)

\* -1, 0 or 1 as a < b, a = b, a > b
NCmp(a, b) ==
    IF Len(a) # Len(b) THEN (IF Len(a) < Len(b) THEN -1 ELSE 1)
    ELSE NCmpAt(a, b, Len(a))

RECURSIVE NMulSmallC(_, _, _, _)
NMulSmallC(a, k, i, c) ==
    IF i > Len(a) THEN (IF c = 0 THEN <<>> ELSE <<c>>)
    ELSE LET t == a[i] * k + c
         IN  <<t % Base>> \o NMulSmallC(a, k, i + 1, t \div Base)

\* a * k for 0 <= k < Base
NMulSmall(a, k) == IF k = 0 THEN <<>> ELSE NMulSmallC(a, k, 1, 0)

NShift1(a) == IF a = <<>> THEN a ELSE <<0>> \o a

RECURSIVE NMulFrom(_, _, _)
NMulFrom(a, b, j) ==
    IF j > Len(b) THEN <<>>
    ELSE NAdd(NMulSmall(a, b[j]), NShift1(NMulFrom(a, b, j + 1)))

NMul(a, b) == IF a = <<>> \/ b = <<>> THEN <<>> ELSE NMulFrom(a, b, 1)

\* a * Base^k and a \div Base^k
NShift(a, k) == IF a = <<>> THEN a ELSE [i \in 1..(Len(a) + k) |-> IF i <= k THEN 0 ELSE a[i - k]]

NDrop(a, k) == IF Len(a) <= k THEN <<>> ELSE SubSeq(a, k + 1, Len(a))

RECURSIVE QSearch(_, _, _)
\* the largest q in 0..hi with b * q <= r
QSearch(r, b, hi) ==
    IF hi = 0 \/ NCmp(NMulSmall(b, hi), r) <= 0 THEN hi ELSE QSearch(r, b, hi - 1)

\* r \div b for r < b * Base, where the top limb of b is at least Base \div 2:
\* the quotient of the leading limbs exceeds the digit by at most 2
QuotDigit(r, b) ==
    IF NCmp(r, b) < 0 THEN 0
    ELSE LET lb  == Len(b)
             rhi == Limb(r, lb + 1) * Base + Limb(r, lb)
             est == rhi \div b[lb]
         IN  QSearch(r, b, IF est >= Base THEN Base - 1 ELSE est)

RECURSIVE NDivFrom(_, _, _, _)
NDivFrom(a, b, i, r) ==
    IF i = 0 THEN <<>>
    ELSE LET r1 == NStrip(<<a[i]>> \o r)
             q  == QuotDigit(r1, b)
             r2 == NSub(r1, NMulSmall(b, q))
         IN  NDivFrom(a, b, i - 1, r2) \o <<q>>

\* a \div b for b # 0: long division after scaling both by f, which brings the
\* top limb of the divisor to at least Base \div 2
NDiv(a, b) ==
    LET f  == Base \div (b[Len(b)] + 1)
        a1 == NMulSmall(a, f)
        b1 == NMulSmall(b, f)
    IN  NStrip(NDivFrom(a1, b1, Len(a1), <<>>))

RECURSIVE NToInt(_)
\* the machine integer of a small natural
NToInt(a) == IF a = <<>> THEN 0 ELSE a[1] + Base * NToInt(Tail(a))

(***************************************************************************)
(* Numbers                                                                 *)
(***************************************************************************)
Zero == [k |-> "fin", neg |-> FALSE, mag |-> <<>>]

NaN == [k |-> "nan", neg |-> FALSE, mag |-> <<>>]

PosInf == [k |-> "inf", neg |-> FALSE, mag |-> <<>>]

NegInf == [k |-> "inf", neg |-> TRUE, mag |-> <<>>]

Fin(neg, mag) == IF mag = <<>> THEN Zero ELSE [k |-> "fin", neg |-> neg, mag |-> mag]

Inf(neg) == IF neg THEN NegInf ELSE PosInf

\* the number of a machine integer
Int2Num(i) == Fin(i < 0, NShift(NatLimbs(IF i < 0 THEN -i ELSE i), FracLimbs))

One == Int2Num(1)

IsNaN(x) == x.k = "nan"

IsFinite(x) == x.k = "fin"

IsInf(x) == x.k = "inf"

\* JavaScript x === 0 (false for NaN)
IsZero(x) == x.k = "fin" /\ x.mag = <<>>

IsNeg(x) == x.neg

Neg(x) == IF x.k = "nan" \/ IsZero(x) THEN x ELSE [x EXCEPT !.neg = ~x.neg]

Add(x, y) ==
    IF IsNaN(x) \/ IsNaN(y) THEN NaN
    ELSE IF IsInf(x) /\ IsInf(y) THEN (IF x.neg = y.neg THEN x ELSE NaN)
    ELSE IF IsInf(x) THEN x
    ELSE IF IsInf(y) THEN y
    ELSE IF x.neg = y.neg THEN Fin(x.neg, NAdd(x.mag, y.mag))
    ELSE IF NCmp(x.mag, y.mag) >= 0 THEN Fin(x.neg, NSub(x.mag, y.mag))
    ELSE Fin(y.neg, NSub(y.mag, x.mag))

Sub(x, y) == Add(x, Neg(y))

Mul(x, y) ==
    IF IsNaN(x) \/ IsNaN(y) THEN NaN
    ELSE IF IsInf(x) \/ IsInf(y)
         THEN (IF IsZero(x) \/ IsZero(y) THEN NaN ELSE Inf(x.neg # y.neg))
    ELSE Fin(x.neg # y.neg, NDrop(NMul(x.mag, y.mag), FracLimbs))

Div(x, y) ==
    IF IsNaN(x) \/ IsNaN(y) THEN NaN
    ELSE IF IsInf(x) THEN (IF IsInf(y) THEN NaN ELSE Inf(x.neg # y.neg))
    ELSE IF IsInf(y) THEN Zero
    ELSE IF IsZero(y) THEN (IF IsZero(x) THEN NaN ELSE Inf(x.neg))
    ELSE Fin(x.neg # y.neg, NDiv(NShift(x.mag, FracLimbs), y.mag))

\* JavaScript x < y (false when either is NaN)
Lt(x, y) ==
    /\ ~IsNaN(x)
    /\ ~IsNaN(y)
    /\ x # y
    /\ IF IsInf(x) THEN x.neg
       ELSE IF IsInf(y) THEN ~y.neg
       ELSE IF x.neg # y.neg THEN x.neg
       ELSE IF x.neg THEN NCmp(x.mag, y.mag) > 0
       ELSE NCmp(x.mag, y.mag) < 0

Gt(x, y) == Lt(y, x)

\* JavaScript x <= y (false when either is NaN)
Le(x, y) == ~IsNaN(x) /\ ~IsNaN(y) /\ ~Lt(y, x)

\* JavaScript x === y on numbers (NaN equals nothing)
NumEq(x, y) == ~IsNaN(x) /\ ~IsNaN(y) /\ x = y

AbsNum(x) == IF x.k = "nan" THEN x ELSE [x EXCEPT !.neg = FALSE]

RECURSIVE PowNat(_, _)
PowNat(x, e) ==
    IF e = 0 THEN One
    ELSE IF e % 2 = 0 THEN LET h == PowNat(x, e \div 2) IN Mul(h, h)
    ELSE Mul(x, PowNat(x, e - 1))

\* Math.pow(x, e) for a finite integral exponent e; Math.pow(x, 0) is 1 for every x
Pow(x, e) ==
    IF IsNaN(e) THEN NaN
    ELSE IF IsZero(e) THEN One
    ELSE IF e.neg THEN Div(One, PowNat(x, NToInt(NDrop(e.mag, FracLimbs))))
    ELSE PowNat(x, NToInt(NDrop(e.mag, FracLimbs)))

\* the decimal i / 10^f, for machine integers i and f >= 0
RECURSIVE Pow10(_)
Pow10(f) == IF f = 0 THEN 1 ELSE 10 * Pow10(f - 1)

Dec(i, f) == Div(Int2Num(i), Int2Num(Pow10(f)))

(***************************************************************************)
(* Numeric engine, src/src/routes/+page.svelte                             *)
(***************************************************************************)
\* pmt without its zero-rate branch
pmt_NoZeroRateBranch(ir, np, pv_) ==
    LET pvif == Pow(Add(One, ir), np)
    IN  Div(Mul(Neg(ir), Mul(pv_, pvif)), Sub(pvif, One))

\* pmt(ir, np, pv): level payment amortizing pv over np periods
pmt(ir, np, pv_) ==
    IF IsZero(ir) THEN Div(Neg(pv_), np)
    ELSE LET pvif == Pow(Add(One, ir), np)
         IN  Div(Mul(Neg(ir), Mul(pv_, pvif)), Sub(pvif, One))

\* pv(rate, nper, pmt): closed-form balance
pv(rate, nper, pmt_) ==
    IF IsZero(rate) THEN Neg(Mul(pmt_, nper))
    ELSE LET x == Pow(Add(One, rate), Neg(nper))
             y == Pow(Add(One, rate), nper)
         IN  Div(Neg(Mul(x, Add(Sub(rate, pmt_), Mul(y, pmt_)))), rate)

Twelve == Int2Num(12)

\* calculate with the refinance cost rolled into the new loan
calculate_CashOut(original_loan_size, original_loan_term, rate, months_paid, down_payment, new_rate, new_term, refi_cost_rate) ==
    LET refi(original_monthly_payment, current_mortgage_balance, new_loan_size,
             new_monthly_payment) ==
            LET current_equity ==
                    Add(Sub(original_loan_size, current_mortgage_balance), down_payment)
                refi_cost == Mul(refi_cost_rate, new_loan_size)
                monthly_savings == Sub(original_monthly_payment, new_monthly_payment)
                total_savings ==
                    Sub(Mul(Mul(monthly_savings, original_loan_term), Twelve), new_term)
                months_to_breakeven == Div(refi_cost, monthly_savings)
            IN  [original_monthly_payment |-> original_monthly_payment,
                 current_mortgage_balance |-> current_mortgage_balance,
                 current_equity           |-> current_equity,
                 new_loan_size            |-> new_loan_size,
                 refi_cost                |-> refi_cost,
                 new_monthly_payment      |-> new_monthly_payment,
                 monthly_savings          |-> monthly_savings,
                 total_savings            |-> total_savings,
                 months_to_breakeven      |-> months_to_breakeven]
        new_loan(original_monthly_payment, current_mortgage_balance, new_loan_size) ==
            refi(original_monthly_payment, current_mortgage_balance, new_loan_size,
                 pmt(Div(new_rate, Twelve), Mul(new_term, Twelve), Neg(new_loan_size)))
        balance(original_monthly_payment, current_mortgage_balance) ==
            new_loan(original_monthly_payment, current_mortgage_balance, Mul(current_mortgage_balance, Add(One, refi_cost_rate)))
        current(original_monthly_payment) ==
            balance(original_monthly_payment,
                    pv(Div(rate, Twelve), Sub(Mul(original_loan_term, Twelve), months_paid),
                       Neg(original_monthly_payment)))
    IN  current(pmt(Div(rate, Twelve), Mul(original_loan_term, Twelve),
                    Neg(original_loan_size)))

\* calculate with the breakeven clamped to 0 when there are no savings
calculate_BreakevenClamped(original_loan_size, original_loan_term, rate, months_paid, down_payment, new_rate, new_term, refi_cost_rate) ==
    LET refi(original_monthly_payment, current_mortgage_balance, new_loan_size,
             new_monthly_payment) ==
            LET current_equity ==
                    Add(Sub(original_loan_size, current_mortgage_balance), down_payment)
                refi_cost == Mul(refi_cost_rate, new_loan_size)
                monthly_savings == Sub(original_monthly_payment, new_monthly_payment)
                total_savings ==
                    Sub(Mul(Mul(monthly_savings, original_loan_term), Twelve), new_term)
                months_to_breakeven ==
                    IF Gt(monthly_savings, Zero) THEN Div(refi_cost, monthly_savings)
                    ELSE Zero
            IN  [original_monthly_payment |-> original_monthly_payment,
                 current_mortgage_balance |-> current_mortgage_balance,
                 current_equity           |-> current_equity,
                 new_loan_size            |-> new_loan_size,
                 refi_cost                |-> refi_cost,
                 new_monthly_payment      |-> new_monthly_payment,
                 monthly_savings          |-> monthly_savings,
                 total_savings            |-> total_savings,
                 months_to_breakeven      |-> months_to_breakeven]
        new_loan(original_monthly_payment, current_mortgage_balance, new_loan_size) ==
            refi(original_monthly_payment, current_mortgage_balance, new_loan_size,
                 pmt(Div(new_rate, Twelve), Mul(new_term, Twelve), Neg(new_loan_size)))
        balance(original_monthly_payment, current_mortgage_balance) ==
            new_loan(original_monthly_payment, current_mortgage_balance, current_mortgage_balance)
        current(original_monthly_payment) ==
            balance(original_monthly_payment,
                    pv(Div(rate, Twelve), Sub(Mul(original_loan_term, Twelve), months_paid),
                       Neg(original_monthly_payment)))
    IN  current(pmt(Div(rate, Twelve), Mul(original_loan_term, Twelve),
                    Neg(original_loan_size)))

\* calculate: every let of the function body is the parameter of a local operator,
\* bound once to its value in the order of the source
calculate(original_loan_size, original_loan_term, rate, months_paid, down_payment, new_rate, new_term, refi_cost_rate) ==
    LET refi(original_monthly_payment, current_mortgage_balance, new_loan_size,
             new_monthly_payment) ==
            LET current_equity ==
                    Add(Sub(original_loan_size, current_mortgage_balance), down_payment)
                refi_cost == Mul(refi_cost_rate, new_loan_size)
                monthly_savings == Sub(original_monthly_payment, new_monthly_payment)
                total_savings ==
                    Sub(Mul(Mul(monthly_savings, original_loan_term), Twelve), new_term)
                months_to_breakeven == Div(refi_cost, monthly_savings)
            IN  [original_monthly_payment |-> original_monthly_payment,
                 current_mortgage_balance |-> current_mortgage_balance,
                 current_equity           |-> current_equity,
                 new_loan_size            |-> new_loan_size,
                 refi_cost                |-> refi_cost,
                 new_monthly_payment      |-> new_monthly_payment,
                 monthly_savings          |-> monthly_savings,
                 total_savings            |-> total_savings,
                 months_to_breakeven      |-> months_to_breakeven]
        new_loan(original_monthly_payment, current_mortgage_balance, new_loan_size) ==
            refi(original_monthly_payment, current_mortgage_balance, new_loan_size,
                 pmt(Div(new_rate, Twelve), Mul(new_term, Twelve), Neg(new_loan_size)))
        balance(original_monthly_payment, current_mortgage_balance) ==
            new_loan(original_monthly_payment, current_mortgage_balance, current_mortgage_balance)
        current(original_monthly_payment) ==
            balance(original_monthly_payment,
                    pv(Div(rate, Twelve), Sub(Mul(original_loan_term, Twelve), months_paid),
                       Neg(original_monthly_payment)))
    IN  current(pmt(Div(rate, Twelve), Mul(original_loan_term, Twelve),
                    Neg(original_loan_size)))

(***************************************************************************)
(* Numeric engine, src/unnamed/part_002 (refactored revision)              *)
(***************************************************************************)
MONTHS_PER_YEAR == 12

\* calculateMonthlyPayment without the negations of presentValue and of the rate
calculateMonthlyPayment_Unnegated(monthlyInterestRate, numberOfPeriods, presentValue) ==
    IF IsZero(monthlyInterestRate) THEN Div(presentValue, numberOfPeriods)
    ELSE LET presentValueInterestFactor ==
                 Pow(Add(One, monthlyInterestRate), numberOfPeriods)
         IN  Div(Mul(monthlyInterestRate, Mul(presentValue, presentValueInterestFactor)),
                 Sub(presentValueInterestFactor, One))

calculateMonthlyPayment(monthlyInterestRate, numberOfPeriods, presentValue) ==
    IF IsZero(monthlyInterestRate) THEN Div(Neg(presentValue), numberOfPeriods)
    ELSE LET presentValueInterestFactor ==
                 Pow(Add(One, monthlyInterestRate), numberOfPeriods)
         IN  Div(Mul(Neg(monthlyInterestRate), Mul(presentValue, presentValueInterestFactor)),
                 Sub(presentValueInterestFactor, One))

calculatePresentValue(monthlyRate, numberOfPeriods, monthlyPayment) ==
    IF IsZero(monthlyRate) THEN Neg(Mul(monthlyPayment, numberOfPeriods))
    ELSE LET discountFactor == Pow(Add(One, monthlyRate), Neg(numberOfPeriods))
             compoundFactor == Pow(Add(One, monthlyRate), numberOfPeriods)
         IN  Div(Neg(Mul(discountFactor,
                         Add(Sub(monthlyRate, monthlyPayment),
                             Mul(compoundFactor, monthlyPayment)))),
                 monthlyRate)

\* calculateResults with the subtraction of monthlySavings the other way round
calculateResults_SavingsReversed(in) ==
    LET mpy == Int2Num(MONTHS_PER_YEAR)
        remainingMonthsOnOriginalLoan == Sub(Mul(in.originalLoanTerm, mpy), in.monthsPaid)
        refi(originalMonthlyPayment, currentMortgageBalance, newLoanSize,
             newMonthlyPayment) ==
            LET currentEquity ==
                    Add(Sub(in.originalLoanSize, currentMortgageBalance), in.downPayment)
                refiCost == Mul(in.refiCostRate, newLoanSize)
                monthlySavings == Sub(newMonthlyPayment, originalMonthlyPayment)
                totalSavings == Mul(monthlySavings, remainingMonthsOnOriginalLoan)
                monthsToBreakeven == Div(refiCost, monthlySavings)
            IN  [originalMonthlyPayment |-> originalMonthlyPayment,
                 currentMortgageBalance |-> currentMortgageBalance,
                 currentEquity          |-> currentEquity,
                 newLoanSize            |-> newLoanSize,
                 refiCost               |-> refiCost,
                 newMonthlyPayment      |-> newMonthlyPayment,
                 monthlySavings         |-> monthlySavings,
                 totalSavings           |-> totalSavings,
                 monthsToBreakeven      |-> monthsToBreakeven]
        newLoan(originalMonthlyPayment, currentMortgageBalance, newLoanSize) ==
            refi(originalMonthlyPayment, currentMortgageBalance, newLoanSize,
                 calculateMonthlyPayment(Div(in.newRate, mpy), Mul(in.newTerm, mpy),
                                         Neg(newLoanSize)))
        balance(originalMonthlyPayment, currentMortgageBalance) ==
            newLoan(originalMonthlyPayment, currentMortgageBalance, currentMortgageBalance)
        current(originalMonthlyPayment) ==
            balance(originalMonthlyPayment,
                    calculatePresentValue(Div(in.rate, mpy), remainingMonthsOnOriginalLoan,
                                          Neg(originalMonthlyPayment)))
    IN  current(calculateMonthlyPayment(Div(in.rate, mpy), Mul(in.originalLoanTerm, mpy),
                                        Neg(in.originalLoanSize)))

\* calculateResults with the down payment taken off the new loan
calculateResults_DownPaymentRepaysLoan(in) ==
    LET mpy == Int2Num(MONTHS_PER_YEAR)
        remainingMonthsOnOriginalLoan == Sub(Mul(in.originalLoanTerm, mpy), in.monthsPaid)
        refi(originalMonthlyPayment, currentMortgageBalance, newLoanSize,
             newMonthlyPayment) ==
            LET currentEquity ==
                    Add(Sub(in.originalLoanSize, currentMortgageBalance), in.downPayment)
                refiCost == Mul(in.refiCostRate, newLoanSize)
                monthlySavings == Sub(originalMonthlyPayment, newMonthlyPayment)
                totalSavings == Mul(monthlySavings, remainingMonthsOnOriginalLoan)
                monthsToBreakeven == Div(refiCost, monthlySavings)
            IN  [originalMonthlyPayment |-> originalMonthlyPayment,
                 currentMortgageBalance |-> currentMortgageBalance,
                 currentEquity          |-> currentEquity,
                 newLoanSize            |-> newLoanSize,
                 refiCost               |-> refiCost,
                 newMonthlyPayment      |-> newMonthlyPayment,
                 monthlySavings         |-> monthlySavings,
                 totalSavings           |-> totalSavings,
                 monthsToBreakeven      |-> monthsToBreakeven]
        newLoan(originalMonthlyPayment, currentMortgageBalance, newLoanSize) ==
            refi(originalMonthlyPayment, currentMortgageBalance, newLoanSize,
                 calculateMonthlyPayment(Div(in.newRate, mpy), Mul(in.newTerm, mpy),
                                         Neg(newLoanSize)))
        balance(originalMonthlyPayment, currentMortgageBalance) ==
            newLoan(originalMonthlyPayment, currentMortgageBalance,
                    Sub(currentMortgageBalance, in.downPayment))
        current(originalMonthlyPayment) ==
            balance(originalMonthlyPayment,
                    calculatePresentValue(Div(in.rate, mpy), remainingMonthsOnOriginalLoan,
                                          Neg(originalMonthlyPayment)))
    IN  current(calculateMonthlyPayment(Div(in.rate, mpy), Mul(in.originalLoanTerm, mpy),
                                        Neg(in.originalLoanSize)))

\* calculate of part_002, bound like calculate above
calculateResults(in) ==
    LET mpy == Int2Num(MONTHS_PER_YEAR)
        remainingMonthsOnOriginalLoan == Sub(Mul(in.originalLoanTerm, mpy), in.monthsPaid)
        refi(originalMonthlyPayment, currentMortgageBalance, newLoanSize,
             newMonthlyPayment) ==
            LET currentEquity ==
                    Add(Sub(in.originalLoanSize, currentMortgageBalance), in.downPayment)
                refiCost == Mul(in.refiCostRate, newLoanSize)
                monthlySavings == Sub(originalMonthlyPayment, newMonthlyPayment)
                totalSavings == Mul(monthlySavings, remainingMonthsOnOriginalLoan)
                monthsToBreakeven == Div(refiCost, monthlySavings)
            IN  [originalMonthlyPayment |-> originalMonthlyPayment,
                 currentMortgageBalance |-> currentMortgageBalance,
                 currentEquity          |-> currentEquity,
                 newLoanSize            |-> newLoanSize,
                 refiCost               |-> refiCost,
                 newMonthlyPayment      |-> newMonthlyPayment,
                 monthlySavings         |-> monthlySavings,
                 totalSavings           |-> totalSavings,
                 monthsToBreakeven      |-> monthsToBreakeven]
        newLoan(originalMonthlyPayment, currentMortgageBalance, newLoanSize) ==
            refi(originalMonthlyPayment, currentMortgageBalance, newLoanSize,
                 calculateMonthlyPayment(Div(in.newRate, mpy), Mul(in.newTerm, mpy),
                                         Neg(newLoanSize)))
        balance(originalMonthlyPayment, currentMortgageBalance) ==
            newLoan(originalMonthlyPayment, currentMortgageBalance, currentMortgageBalance)
        current(originalMonthlyPayment) ==
            balance(originalMonthlyPayment,
                    calculatePresentValue(Div(in.rate, mpy), remainingMonthsOnOriginalLoan,
                                          Neg(originalMonthlyPayment)))
    IN  current(calculateMonthlyPayment(Div(in.rate, mpy), Mul(in.originalLoanTerm, mpy),
                                        Neg(in.originalLoanSize)))

(***************************************************************************)
(* Engine specification: the pure functions applied to bounded inputs      *)
(***************************************************************************)
VARIABLES
    einputs,         \* engine: the input record the functions are applied to
    ecall,           \* engine: the call made and what it returned
    revision,        \* page: which revision of the page script runs
    inputs,          \* page: $state, the eight numeric inputs
    displayValues,   \* page: $state, the text shown in the five formatted fields
    outputs,         \* page: $derived, the result record
    frames,          \* page: callbacks handed to requestAnimationFrame, not yet run
    selectionRange,  \* page: per currency field, the position last given to setSelectionRange
    event,           \* page: the input event last dispatched (its target's field and text)
    edits,           \* page: number of input events so far
    mounted,         \* frog: whether the component's effect has run for the first time
    monthlySavings,  \* frog: $props, the savings the parent passes in
    shouldCelebrate, \* frog: $state, whether the celebration animation class is set
    previousSavings, \* frog: $state, the savings the effect saw last
    timeouts         \* frog: setTimeout callbacks not yet run, as milliseconds left, oldest first

evars == <<einputs, ecall>>

vars == <<revision, inputs, displayValues, outputs, frames, selectionRange, event, edits>>

fvars == <<mounted, monthlySavings, shouldCelebrate, previousSavings, timeouts>>

\* the frog component is not part of the engine, page and utility specifications
FrogNotRendered ==
    /\ mounted = FALSE
    /\ monthlySavings = Zero
    /\ shouldCelebrate = FALSE
    /\ previousSavings = Zero
    /\ timeouts = <<>>

\* no call of the engine specification has been made
NoCall == [fn |-> "none", args |-> <<>>, out |-> Zero]

\* the page is not part of the engine specification
PageNotMounted ==
    /\ revision = "none"
    /\ inputs = <<>>
    /\ displayValues = <<>>
    /\ outputs = <<>>
    /\ frames = <<>>
    /\ selectionRange = <<>>
    /\ event = <<>>
    /\ edits = 0

\* longest loan term of the engine inputs, in years
MaxTermYears == 2

\* 0 %, 5 % and 6.5 % a year
EngineRates == {Zero, Dec(5, 2), Dec(65, 3)}

\* months already paid, up to the term of t years
EngineMonths(t) == {0, 3} \cup UNION {{12 * u - 1, 12 * u} : u \in 1..t}

\* whole years and whole years less a quarter
EngineNewTerms ==
    {Int2Num(t) : t \in 1..MaxTermYears} \cup {Dec(100 * t - 25, 2) : t \in 1..MaxTermYears}

MortgageInputs(P, t, r, m, dp, nr, nt, rc) ==
    [originalLoanSize |-> P, originalLoanTerm |-> t, rate |-> r, monthsPaid |-> m,
     downPayment |-> dp, newRate |-> nr, newTerm |-> nt, refiCostRate |-> rc]

\* inputs in the ranges the data model expects
ValidInputs ==
    UNION { { MortgageInputs(P, Int2Num(t), r, Int2Num(m), Int2Num(100000), nr, nt, Dec(1, 2)) :
                P \in {Int2Num(1000), Int2Num(500000)}, r \in EngineRates,
                m \in EngineMonths(t) \ {12 * t}, nr \in EngineRates, nt \in EngineNewTerms } :
            t \in 1..MaxTermYears }

\* inputs outside them: nothing borrowed, a term of 0 years, a loan paid to its
\* end or beyond, a negative rate, no down payment, no refinance cost
DegenerateInputs ==
    { MortgageInputs(P, Int2Num(t), r, Int2Num(m), dp, nr, nt, rc) :
        P \in {Zero, Int2Num(1000)}, t \in {0, 1}, r \in EngineRates \cup {Dec(-5, 2)},
        m \in {0, 12, 13}, dp \in {Zero}, nr \in {Zero, Dec(5, 2), Dec(-5, 2)},
        nt \in {Zero, Int2Num(1)}, rc \in {Zero, Dec(1, 2)} }

\* the scenario the page starts with
DefaultInputs ==
    MortgageInputs(Int2Num(500000), Int2Num(30), Dec(65, 3), Zero, Int2Num(100000),
                   Dec(5, 2), Int2Num(30), Dec(1, 2))

EngineInputs == ValidInputs \cup DegenerateInputs \cup {DefaultInputs}

EInit ==
    /\ einputs \in EngineInputs
    /\ ecall = NoCall
    /\ PageNotMounted
    /\ FrogNotRendered

\* the arguments calculate passes to pmt for the original loan
OrigRate == Div(einputs.rate, Int2Num(12))

OrigPeriods == Mul(einputs.originalLoanTerm, Int2Num(12))

RemainingPeriods == Sub(OrigPeriods, einputs.monthsPaid)

CallPmt ==
    /\ ecall.fn = "none"
    /\ \E pv0 \in {einputs.originalLoanSize, Neg(einputs.originalLoanSize)} :
          ecall' = [fn |-> "pmt", args |-> <<OrigRate, OrigPeriods, pv0>>,
                    out |-> pmt(OrigRate, OrigPeriods, pv0)]
    /\ UNCHANGED <<einputs, vars, fvars>>

CallPv ==
    /\ ecall.fn = "none"
    /\ LET payment == pmt(OrigRate, OrigPeriods, Neg(einputs.originalLoanSize))
       IN  \E pmt0 \in {payment, Neg(payment)} :
              ecall' = [fn |-> "pv", args |-> <<OrigRate, RemainingPeriods, pmt0>>,
                        out |-> pv(OrigRate, RemainingPeriods, pmt0)]
    /\ UNCHANGED <<einputs, vars, fvars>>

CallCalculate ==
    /\ ecall.fn = "none"
    /\ ecall' = [fn |-> "calculate", args |-> <<einputs>>,
                 out |-> calculate(einputs.originalLoanSize, einputs.originalLoanTerm,
                                   einputs.rate, einputs.monthsPaid, einputs.downPayment,
                                   einputs.newRate, einputs.newTerm, einputs.refiCostRate)]
    /\ UNCHANGED <<einputs, vars, fvars>>

CallCalculateMonthlyPayment ==
    /\ ecall.fn = "none"
    /\ \E pv0 \in {einputs.originalLoanSize, Neg(einputs.originalLoanSize)} :
          ecall' = [fn |-> "calculateMonthlyPayment", args |-> <<OrigRate, OrigPeriods, pv0>>,
                    out |-> calculateMonthlyPayment(OrigRate, OrigPeriods, pv0)]
    /\ UNCHANGED <<einputs, vars, fvars>>

CallCalculatePresentValue ==
    /\ ecall.fn = "none"
    /\ LET payment == calculateMonthlyPayment(OrigRate, OrigPeriods,
                                              Neg(einputs.originalLoanSize))
       IN  \E pmt0 \in {payment, Neg(payment)} :
              ecall' = [fn |-> "calculatePresentValue",
                        args |-> <<OrigRate, RemainingPeriods, pmt0>>,
                        out |-> calculatePresentValue(OrigRate, RemainingPeriods, pmt0)]
    /\ UNCHANGED <<einputs, vars, fvars>>

CallCalculateResults ==
    /\ ecall.fn = "none"
    /\ ecall' = [fn |-> "calculateResults", args |-> <<einputs>>,
                 out |-> calculateResults(einputs)]
    /\ UNCHANGED <<einputs, vars, fvars>>

ENext ==
    \/ CallPmt
    \/ CallPv
    \/ CallCalculate
    \/ CallCalculateMonthlyPayment
    \/ CallCalculatePresentValue
    \/ CallCalculateResults

SpecEngine == EInit /\ [][ENext]_<<evars, vars, fvars>>

(***************************************************************************)
(* Claims about the numeric engine (checked under SpecEngine)              *)
(***************************************************************************)
IsCalc == ecall.fn \in {"calculate", "calculateResults"}

\* fields of the result of either revision
OutPayment == IF ecall.fn = "calculate" THEN ecall.out.original_monthly_payment
              ELSE ecall.out.originalMonthlyPayment

OutBalance == IF ecall.fn = "calculate" THEN ecall.out.current_mortgage_balance
              ELSE ecall.out.currentMortgageBalance

OutNewLoanSize == IF ecall.fn = "calculate" THEN ecall.out.new_loan_size
                  ELSE ecall.out.newLoanSize

OutMonthlySavings == IF ecall.fn = "calculate" THEN ecall.out.monthly_savings
                     ELSE ecall.out.monthlySavings

OutTotalSavings == IF ecall.fn = "calculate" THEN ecall.out.total_savings
                   ELSE ecall.out.totalSavings

\* x equals y within a relative tolerance of 1e-6
RelClose(x, y) ==
    /\ IsFinite(x)
    /\ IsFinite(y)
    /\ Le(AbsNum(Sub(x, y)), Mul(Dec(1, 6), AbsNum(y)))

\* C1: for every input record, totalSavings = monthlySavings x (originalLoanTerm x 12
\* - monthsPaid); newTerm does not enter it
C1_TotalSavingsOverRemainingMonths ==
    IsCalc => OutTotalSavings = Mul(OutMonthlySavings, RemainingPeriods)

\* C7: in every result, newLoanSize is exactly currentMortgageBalance: the same value,
\* digit for digit (a NaN balance is copied as NaN)
C7_NewLoanSizeIsBalance == IsCalc => OutNewLoanSize = OutBalance

C7_Witness ==
    /\ ecall.fn = "calculate"
    /\ Gt(einputs.monthsPaid, Zero)
    /\ Gt(ecall.out.new_loan_size, Zero)
    /\ Lt(ecall.out.new_loan_size, einputs.originalLoanSize)

\* the balance after m payments by the recurrence
\* balance = balance x (1 + monthlyRate) - payment, started at the principal
RECURSIVE IterativeBalance(_, _, _, _)
IterativeBalance(principal, monthlyRate, payment, m) ==
    IF m = 0 THEN principal
    ELSE Sub(Mul(IterativeBalance(principal, monthlyRate, payment, m - 1),
                 Add(One, monthlyRate)),
             payment)

MonthsPaidInt == NToInt(NDrop(einputs.monthsPaid.mag, FracLimbs))

\* the ranges of C3 to C6: rate >= 0, term > 0, principal > 0
InRange ==
    /\ Le(Zero, einputs.rate)
    /\ Gt(einputs.originalLoanTerm, Zero)
    /\ Gt(einputs.originalLoanSize, Zero)

\* C3: with monthsPaid = 0 the remaining balance equals the original principal,
\* for every rate >= 0, term > 0 and principal > 0
C3_BalanceAtStartIsPrincipal ==
    (IsCalc /\ InRange /\ IsZero(einputs.monthsPaid))
        => RelClose(OutBalance, einputs.originalLoanSize)

\* C4: for r # 0, n > 0 and P > 0, presentValue(r, n, monthlyPayment(r, n, -P))
\* equals P within a relative tolerance of 1e-6
C4_PaymentBalanceRoundTrip ==
    (/\ ecall.fn \in {"pv", "calculatePresentValue"}
     /\ ~IsZero(ecall.args[1])
     /\ Gt(ecall.args[2], Zero)
     /\ Gt(einputs.originalLoanSize, Zero)
     /\ IsZero(einputs.monthsPaid)
     /\ ecall.args[3] = pmt(ecall.args[1], ecall.args[2], Neg(einputs.originalLoanSize)))
        => RelClose(ecall.out, einputs.originalLoanSize)

\* C5: for rate >= 0 and a positive payment the remaining balance decreases with
\* monthsPaid over 0..n, is 0 at monthsPaid = n and is never negative up to n
C5_BalanceDecreasesToZero ==
    (IsCalc /\ InRange /\ Le(einputs.monthsPaid, OrigPeriods))
        => /\ Le(Zero, OutBalance)
           /\ einputs.monthsPaid = OrigPeriods => IsZero(OutBalance)
           /\ Lt(einputs.monthsPaid, OrigPeriods)
                => Lt(pv(OrigRate, Sub(RemainingPeriods, One), Neg(OutPayment)), OutBalance)

\* x and y agree to 6 significant digits; a balance that has reached zero is
\* compared to a millionth of a cent
SixDigits(x, y) ==
    /\ IsFinite(x)
    /\ IsFinite(y)
    /\ Le(AbsNum(Sub(x, y)), Add(Mul(Dec(1, 6), AbsNum(y)), Dec(1, 8)))

\* C6: the closed-form balance agrees with the iterative recurrence to 6 significant
\* digits for every monthsPaid in 0..n
C6_ClosedFormMatchesRecurrence ==
    (IsCalc /\ InRange /\ Le(einputs.monthsPaid, OrigPeriods))
        => SixDigits(OutBalance,
                     IterativeBalance(einputs.originalLoanSize, OrigRate, OutPayment,
                                      MonthsPaidInt))

\* C9: if newRate < rate and newTerm = originalLoanTerm - monthsPaid / 12 then
\* monthlySavings > 0
C9_LowerRateSameTermSaves ==
    (/\ IsCalc
     /\ Lt(einputs.newRate, einputs.rate)
     /\ NumEq(einputs.newTerm, Sub(einputs.originalLoanTerm,
                                   Div(einputs.monthsPaid, Int2Num(12)))))
        => Gt(OutMonthlySavings, Zero)

\* C10: at a zero rate monthlyPayment is -presentValue / numPeriods exactly (for
\* numPeriods > 0) and presentValue is -(payment x numPeriods)
C10_ZeroRateDegeneration ==
    /\ (/\ ecall.fn \in {"pmt", "calculateMonthlyPayment"}
        /\ IsZero(ecall.args[1])
        /\ Gt(ecall.args[2], Zero))
          => /\ ecall.out = Div(Neg(ecall.args[3]), ecall.args[2])
             /\ RelClose(Mul(ecall.out, ecall.args[2]), Neg(ecall.args[3]))
    /\ (ecall.fn \in {"pv", "calculatePresentValue"} /\ IsZero(ecall.args[1]))
          => ecall.out = Neg(Mul(ecall.args[3], ecall.args[2]))

C10_Witness ==
    /\ ecall.fn = "pmt"
    /\ IsZero(ecall.args[1])
    /\ Gt(ecall.args[2], Zero)
    /\ Lt(ecall.args[3], Zero)
    /\ Gt(ecall.out, Zero)

\* the precondition of C9: a lower new rate over the remaining term
LowerRateSameTerm ==
    /\ Lt(einputs.newRate, einputs.rate)
    /\ NumEq(einputs.newTerm, Sub(einputs.originalLoanTerm,
                                  Div(einputs.monthsPaid, Int2Num(12))))

\* C9 (amended): if newRate < rate and newTerm = originalLoanTerm - monthsPaid / 12,
\* and the loan is a real one still running (originalLoanSize > 0 and
\* 0 <= monthsPaid < originalLoanTerm x 12), then monthlySavings > 0
C9_LowerRateSameTermSavesOnRunningLoan ==
    (/\ IsCalc
     /\ LowerRateSameTerm
     /\ Gt(einputs.originalLoanSize, Zero)
     /\ Le(Zero, einputs.monthsPaid)
     /\ Lt(einputs.monthsPaid, OrigPeriods))
        => Gt(OutMonthlySavings, Zero)

C9_Witness ==
    /\ ecall.fn = "calculateResults"
    /\ LowerRateSameTerm
    /\ Gt(einputs.originalLoanSize, Zero)
    /\ Gt(einputs.monthsPaid, Zero)
    /\ Lt(einputs.monthsPaid, OrigPeriods)
    /\ Gt(einputs.newRate, Zero)
    /\ Gt(ecall.out.monthlySavings, Zero)
    /\ Lt(ecall.out.monthlySavings, ecall.out.originalMonthlyPayment)

\* a call of either payment function
IsPaymentCall == ecall.fn \in {"pmt", "calculateMonthlyPayment"}

\* C11: for every monthlyRate >= 0, numPeriods > 0 and negative presentValue the
\* payment returned by pmt / calculateMonthlyPayment is strictly positive
C11_PaymentPositiveForNegativePresentValue ==
    (/\ IsPaymentCall
     /\ Le(Zero, ecall.args[1])
     /\ Gt(ecall.args[2], Zero)
     /\ Lt(ecall.args[3], Zero))
        => Gt(ecall.out, Zero)

C11_Witness ==
    /\ ecall.fn = "calculateMonthlyPayment"
    /\ Gt(ecall.args[1], Zero)
    /\ Gt(ecall.args[2], Zero)
    /\ Lt(ecall.args[3], Zero)
    /\ Gt(ecall.out, Zero)
    /\ Lt(ecall.out, Neg(ecall.args[3]))

(***************************************************************************)
(* Text and the conversions between text and numbers                       *)
(***************************************************************************)
DigitChars == <<"0", "1", "2", "3", "4", "5", "6", "7", "8", "9">>

IsDigit(c) == \E d \in 1..10 : DigitChars[d] = c

DigitVal(c) == (CHOOSE d \in 1..10 : DigitChars[d] = c) - 1

DigitChar(d) == DigitChars[d + 1]

\* str.replace(/c/g, '')
RemoveAll(str, c) == SelectSeq(str, LAMBDA ch : ch # c)

RECURSIVE TrimStart(_)
TrimStart(str) == IF str # <<>> /\ str[1] = " " THEN TrimStart(Tail(str)) ELSE str

\* the number of digits of str from position i on
RECURSIVE DigitRun(_, _)
DigitRun(str, i) ==
    IF i <= Len(str) /\ IsDigit(str[i]) THEN 1 + DigitRun(str, i + 1) ELSE 0

\* the natural number a sequence of digits writes
RECURSIVE DigitsToNat(_)
DigitsToNat(ds) ==
    IF ds = <<>> THEN <<>>
    ELSE NAdd(NMulSmall(DigitsToNat(SubSeq(ds, 1, Len(ds) - 1)), 10),
              NatLimbs(DigitVal(ds[Len(ds)])))

RECURSIVE Pow10Nat(_)
Pow10Nat(e) == IF e = 0 THEN <<1>> ELSE NMulSmall(Pow10Nat(e - 1), 10)

StartsWith(str, i, w) ==
    i + Len(w) - 1 <= Len(str) /\ SubSeq(str, i, i + Len(w) - 1) = w

InfinityText == <<"I", "n", "f", "i", "n", "i", "t", "y">>

NaNText == <<"N", "a", "N">>

\* parseFloat(str): the longest prefix of the trimmed text that is a decimal
\* literal (sign, digits, fraction, exponent), NaN when there is none.
\* s is the trimmed text, b the position after the sign, ni and nf the numbers
\* of integer and fraction digits, m the position after the mantissa, ne the
\* number of exponent digits and ex the decimal exponent of the digits read
parseFloat(str) ==
    LET value(s, b, ni, nf, ex) ==
            LET neg  == s[1] = "-"
                mant == DigitsToNat(SubSeq(s, b, b + ni - 1)
                                    \o SubSeq(s, b + ni + 1, b + ni + nf))
            IN  IF ex >= 0 THEN Fin(neg, NShift(NMul(mant, Pow10Nat(ex)), FracLimbs))
                ELSE Fin(neg, NDiv(NShift(mant, FracLimbs), Pow10Nat(-ex)))
        exponent(s, b, ni, nf, m, eb, ne) ==
            LET eabs == IF ne = 0 THEN 0
                        ELSE NToInt(DigitsToNat(SubSeq(s, eb, eb + ne - 1)))
            IN  value(s, b, ni, nf, (IF ne > 0 /\ s[eb - 1] = "-" THEN -eabs ELSE eabs) - nf)
        mantissa(s, b, ni, nf, m) ==
            LET isE     == m <= Len(s) /\ s[m] \in {"e", "E"}
                esigned == isE /\ m + 1 <= Len(s) /\ s[m + 1] \in {"+", "-"}
                eb      == m + 1 + (IF esigned THEN 1 ELSE 0)
            IN  exponent(s, b, ni, nf, m, eb, IF isE THEN DigitRun(s, eb) ELSE 0)
        fraction(s, b, ni) ==
            LET dot == b + ni <= Len(s) /\ s[b + ni] = "."
                nf  == IF dot THEN DigitRun(s, b + ni + 1) ELSE 0
            IN  IF ni = 0 /\ nf = 0 THEN NaN
                ELSE mantissa(s, b, ni, nf, b + ni + (IF dot THEN 1 + nf ELSE 0))
        literal(s, b) ==
            IF StartsWith(s, b, InfinityText) THEN Inf(s[1] = "-")
            ELSE fraction(s, b, DigitRun(s, b))
        trimmed(s) == literal(s, IF s # <<>> /\ s[1] \in {"+", "-"} THEN 2 ELSE 1)
    IN  trimmed(TrimStart(str))

\* value || 0
OrZero(x) == IF IsNaN(x) \/ IsZero(x) THEN Zero ELSE x

\* the w low decimal digits of the machine integer k, most significant first
RECURSIVE LimbDigits(_, _)
LimbDigits(k, w) ==
    IF w = 0 THEN <<>> ELSE LimbDigits(k \div 10, w - 1) \o <<DigitChar(k % 10)>>

\* the digits of a limb sequence, four to a limb, most significant first
RECURSIVE NatDigits(_)
NatDigits(a) == IF a = <<>> THEN <<>> ELSE NatDigits(Tail(a)) \o LimbDigits(a[1], 4)

RECURSIVE StripLeadingZeros(_)
StripLeadingZeros(ds) ==
    IF ds # <<>> /\ ds[1] = "0" THEN StripLeadingZeros(Tail(ds)) ELSE ds

\* ds without its trailing zeros, keeping at least keep digits
RECURSIVE StripTrailingZeros(_, _)
StripTrailingZeros(ds, keep) ==
    IF Len(ds) > keep /\ ds[Len(ds)] = "0"
    THEN StripTrailingZeros(SubSeq(ds, 1, Len(ds) - 1), keep)
    ELSE ds

\* the digits of the integer part of a finite number (none for 0) and all the
\* digits of its fraction
IntDigits(x) == StripLeadingZeros(NatDigits(NDrop(x.mag, FracLimbs)))

FracDigits(x) == NatDigits([i \in 1..FracLimbs |-> Limb(x.mag, i)])

SignText(x) == IF x.neg THEN <<"-">> ELSE <<>>

\* the digits of the machine integer k >= 0
RECURSIVE IntText(_)
IntText(k) == IF k < 10 THEN <<DigitChar(k)>> ELSE IntText(k \div 10) \o <<DigitChar(k % 10)>>

\* d.ddde+x for the significant digits ds and the decimal exponent e
Exponential(ds, e) ==
    <<ds[1]>> \o (IF Len(ds) > 1 THEN <<".">> \o Tail(ds) ELSE <<>>)
    \o <<"e", IF e < 0 THEN "-" ELSE "+">> \o IntText(IF e < 0 THEN -e ELSE e)

\* Number.prototype.toString(): the decimal digits of the number without
\* trailing zeros, in exponent form from 1e21 on and below 1e-6
toString(x) ==
    IF IsNaN(x) THEN NaNText
    ELSE IF IsInf(x) THEN SignText(x) \o InfinityText
    ELSE LET id == IntDigits(x)
             fd == StripTrailingZeros(FracDigits(x), 0)
             lz == Len(fd) - Len(StripLeadingZeros(fd))
         IN  IF id = <<>> /\ fd = <<>> THEN <<"0">>
             ELSE IF Len(id) > 21
                  THEN SignText(x) \o Exponential(StripTrailingZeros(id \o fd, 1), Len(id) - 1)
             ELSE IF id = <<>> /\ lz >= 6
                  THEN SignText(x) \o Exponential(StripLeadingZeros(fd), -(lz + 1))
             ELSE SignText(x) \o (IF id = <<>> THEN <<"0">> ELSE id)
                  \o (IF fd = <<>> THEN <<>> ELSE <<".">> \o fd)

\* x rounded to d fractional digits, halves away from zero (d <= 4 * FracLimbs)
RoundHalfExpand(x, d) ==
    IF ~IsFinite(x) THEN x
    ELSE LET u   == Pow10Nat(4 * FracLimbs - d)
             q   == NDiv(x.mag, u)
             rem == NSub(x.mag, NMul(q, u))
             up  == NCmp(NMulSmall(rem, 2), u) >= 0
         IN  Fin(x.neg, NMul(IF up THEN NAdd(q, <<1>>) ELSE q, u))

\* digits in groups of three, separated by commas
RECURSIVE Grouped(_)
Grouped(ds) ==
    IF Len(ds) <= 3 THEN ds
    ELSE Grouped(SubSeq(ds, 1, Len(ds) - 3)) \o <<",">> \o SubSeq(ds, Len(ds) - 2, Len(ds))

\* the one character U+221E, which en-US writes for Infinity
InfinitySign == <<"U+221E">>

\* value.toLocaleString('en-US', {minimumFractionDigits, maximumFractionDigits})
toLocaleString(x, minimumFractionDigits, maximumFractionDigits) ==
    IF IsNaN(x) THEN NaNText
    ELSE IF IsInf(x) THEN SignText(x) \o InfinitySign
    ELSE LET r  == RoundHalfExpand(x, maximumFractionDigits)
             id == IntDigits(r)
             fd == StripTrailingZeros(SubSeq(FracDigits(r), 1, maximumFractionDigits),
                                      minimumFractionDigits)
         IN  SignText(x) \o (IF id = <<>> THEN <<"0">> ELSE Grouped(id))
             \o (IF fd = <<>> THEN <<>> ELSE <<".">> \o fd)

\* value.toFixed(fractionDigits), for |value| < 1e21
toFixed(x, fractionDigits) ==
    IF IsNaN(x) THEN NaNText
    ELSE IF IsInf(x) THEN SignText(x) \o InfinityText
    ELSE LET r  == RoundHalfExpand(x, fractionDigits)
             id == IntDigits(r)
             fd == SubSeq(FracDigits(r), 1, fractionDigits)
         IN  SignText(x) \o (IF id = <<>> THEN <<"0">> ELSE id)
             \o (IF fd = <<>> THEN <<>> ELSE <<".">> \o fd)

(***************************************************************************)
(* The page: state, formatting utilities, event handlers, derived results  *)
(***************************************************************************)
\* length of the edit sequences explored
MaxEdits == 2

Revisions == {"+page.svelte", "part_002"}

CurrencyFields == {"originalLoanSize", "downPayment"}

PercentFields == {"rate", "newRate", "refiCostRate"}

NumberFields == {"originalLoanTerm", "monthsPaid", "newTerm"}

formatCurrency(value) == toLocaleString(value, 0, 3)

\* parseCurrency whose replace lacks the g flag: only the first comma is removed
parseCurrency_FirstCommaOnly(str) ==
    LET first == IF \E i \in 1..Len(str) : str[i] = ","
                 THEN CHOOSE i \in 1..Len(str) : str[i] = "," /\ \A j \in 1..(i - 1) : str[j] # ","
                 ELSE 0
    IN  OrZero(parseFloat(IF first = 0 THEN str
                          ELSE SubSeq(str, 1, first - 1) \o SubSeq(str, first + 1, Len(str))))

parseCurrency(str) == OrZero(parseFloat(RemoveAll(str, ",")))

formatPercent(value) == toString(Mul(value, Int2Num(100)))

parsePercent(str) ==
    LET num == OrZero(parseFloat(RemoveAll(str, "%")))
    IN  Div(num, Int2Num(100))

\* let outputs = calculate(...) evaluated once, without $derived
outputs_ComputedOnce(rev, in) ==
    IF rev = "+page.svelte"
    THEN calculate(DefaultInputs.originalLoanSize, DefaultInputs.originalLoanTerm,
                   DefaultInputs.rate, DefaultInputs.monthsPaid, DefaultInputs.downPayment,
                   DefaultInputs.newRate, DefaultInputs.newTerm, DefaultInputs.refiCostRate)
    ELSE calculateResults(DefaultInputs)

\* let outputs = $derived(calculate(...)): recomputed from the inputs it reads
outputs_derived(rev, in) ==
    IF rev = "+page.svelte"
    THEN calculate(in.originalLoanSize, in.originalLoanTerm, in.rate, in.monthsPaid,
                   in.downPayment, in.newRate, in.newTerm, in.refiCostRate)
    ELSE calculateResults(in)

\* no input event has been dispatched yet
NoEvent == [type |-> "none"]

Init ==
    /\ revision \in Revisions
    /\ inputs = DefaultInputs
    /\ displayValues = [originalLoanSize |-> <<"5", "0", "0", ",", "0", "0", "0">>,
                        rate             |-> <<"6", ".", "5">>,
                        downPayment      |-> <<"1", "0", "0", ",", "0", "0", "0">>,
                        newRate          |-> <<"5">>,
                        refiCostRate     |-> <<"1">>]
    /\ outputs = outputs_derived(revision, inputs)
    /\ frames = <<>>
    /\ selectionRange = [f \in CurrencyFields |-> <<>>]
    /\ event = NoEvent
    /\ edits = 0
    /\ einputs = DefaultInputs
    /\ ecall = NoCall
    /\ FrogNotRendered

\* text an input event finds in a currency field: a digit typed at the end of
\* "500,000", the field emptied, and an amount with four decimal places
CurrencyTexts ==
    { <<"5", "0", "0", ",", "0", "0", "0", "7">>, <<>>, <<"1", ".", "2", "3", "4", "6">> }

\* text an input event finds in a percent field
PercentTexts == { <<"6", ".">>, <<"6", ".", "5">>, <<"6", ".", "5", "%">>, <<"%">> }

\* values a number field delivers (years or months)
NumberValues == {Int2Num(0), Int2Num(15)}

\* handleCurrencyInput leaving the typed text as the display value
handleCurrencyInput_NoReformat(field, value, selectionStart) ==
    LET cursorPos    == selectionStart
        oldLength    == Len(displayValues[field])
        numericValue == parseCurrency(value)
        newDisplay   == value
        newLength    == Len(newDisplay)
        newCursorPos == cursorPos + (newLength - oldLength)
    IN  /\ inputs' = [inputs EXCEPT ![field] = numericValue]
        /\ displayValues' = [displayValues EXCEPT ![field] = newDisplay]
        /\ frames' = Append(frames, [field |-> field, pos |-> newCursorPos])
        /\ outputs' = outputs_derived(revision, inputs')
        /\ event' = [type |-> "input", handler |-> "handleCurrencyInput", field |-> field,
                     value |-> value, selectionStart |-> selectionStart,
                     oldValue |-> displayValues[field]]
        /\ UNCHANGED <<revision, selectionRange>>

\* handleCurrencyInput storing the amount in every currency input
handleCurrencyInput_AllCurrencyFields(field, value, selectionStart) ==
    LET cursorPos    == selectionStart
        oldLength    == Len(displayValues[field])
        numericValue == parseCurrency(value)
        newDisplay   == formatCurrency(numericValue)
        newLength    == Len(newDisplay)
        newCursorPos == cursorPos + (newLength - oldLength)
    IN  /\ inputs' = [f \in DOMAIN inputs |->
                         IF f \in CurrencyFields THEN numericValue ELSE inputs[f]]
        /\ displayValues' = [displayValues EXCEPT ![field] = newDisplay]
        /\ frames' = Append(frames, [field |-> field, pos |-> newCursorPos])
        /\ outputs' = outputs_derived(revision, inputs')
        /\ event' = [type |-> "input", handler |-> "handleCurrencyInput", field |-> field,
                     value |-> value, selectionStart |-> selectionStart,
                     oldValue |-> displayValues[field]]
        /\ UNCHANGED <<revision, selectionRange>>

handleCurrencyInput(field, value, selectionStart) ==
    LET cursorPos    == selectionStart
        oldLength    == Len(displayValues[field])
        numericValue == parseCurrency(value)
        newDisplay   == formatCurrency(numericValue)
        newLength    == Len(newDisplay)
        newCursorPos == cursorPos + (newLength - oldLength)
    IN  /\ inputs' = [inputs EXCEPT ![field] = numericValue]
        /\ displayValues' = [displayValues EXCEPT ![field] = newDisplay]
        /\ frames' = Append(frames, [field |-> field, pos |-> newCursorPos])
        /\ outputs' = outputs_derived(revision, inputs')
        /\ event' = [type |-> "input", handler |-> "handleCurrencyInput", field |-> field,
                     value |-> value, selectionStart |-> selectionStart,
                     oldValue |-> displayValues[field]]
        /\ UNCHANGED <<revision, selectionRange>>

\* handlePercentInput dividing the percentage by 10, not by 100
handlePercentInput_DividedByTen(field, targetValue) ==
    LET value        == RemoveAll(targetValue, "%")
        numericValue == OrZero(parseFloat(value))
    IN  /\ inputs' = [inputs EXCEPT ![field] = Div(numericValue, Int2Num(10))]
        /\ displayValues' = [displayValues EXCEPT ![field] = toString(numericValue)]
        /\ outputs' = outputs_derived(revision, inputs')
        /\ event' = [type |-> "input", handler |-> "handlePercentInput", field |-> field,
                     value |-> targetValue]
        /\ UNCHANGED <<revision, frames, selectionRange>>

\* handlePercentInput displaying the percentage rounded to a whole number
handlePercentInput_DisplayRounded(field, targetValue) ==
    LET value        == RemoveAll(targetValue, "%")
        numericValue == OrZero(parseFloat(value))
    IN  /\ inputs' = [inputs EXCEPT ![field] = Div(numericValue, Int2Num(100))]
        /\ displayValues' = [displayValues EXCEPT ![field] = toFixed(numericValue, 0)]
        /\ outputs' = outputs_derived(revision, inputs')
        /\ event' = [type |-> "input", handler |-> "handlePercentInput", field |-> field,
                     value |-> targetValue]
        /\ UNCHANGED <<revision, frames, selectionRange>>

handlePercentInput(field, targetValue) ==
    LET value        == RemoveAll(targetValue, "%")
        numericValue == OrZero(parseFloat(value))
    IN  /\ inputs' = [inputs EXCEPT ![field] = Div(numericValue, Int2Num(100))]
        /\ displayValues' = [displayValues EXCEPT ![field] = toString(numericValue)]
        /\ outputs' = outputs_derived(revision, inputs')
        /\ event' = [type |-> "input", handler |-> "handlePercentInput", field |-> field,
                     value |-> targetValue]
        /\ UNCHANGED <<revision, frames, selectionRange>>

\* a result record that is a number in every field
AllFinite(out) == \A f \in DOMAIN out : IsFinite(out[f])

\* bind:value whose result stays as it is once a field of it is not finite
bindValue_StuckAfterNaN(field, value) ==
    /\ inputs' = [inputs EXCEPT ![field] = value]
    /\ outputs' = IF AllFinite(outputs) THEN outputs_derived(revision, inputs') ELSE outputs
    /\ event' = [type |-> "input", handler |-> "bind:value", field |-> field, value |-> value]
    /\ UNCHANGED <<revision, displayValues, frames, selectionRange>>

\* bind:value of a type="number" field
bindValue(field, value) ==
    /\ inputs' = [inputs EXCEPT ![field] = value]
    /\ outputs' = outputs_derived(revision, inputs')
    /\ event' = [type |-> "input", handler |-> "bind:value", field |-> field, value |-> value]
    /\ UNCHANGED <<revision, displayValues, frames, selectionRange>>

CurrencyInputEvent ==
    /\ edits < MaxEdits
    /\ \E field \in CurrencyFields, value \in CurrencyTexts :
          \E selectionStart \in {0, Len(value)} :
             handleCurrencyInput(field, value, selectionStart)
    /\ edits' = edits + 1
    /\ UNCHANGED <<evars, fvars>>

PercentInputEvent ==
    /\ edits < MaxEdits
    /\ \E field \in PercentFields, value \in PercentTexts : handlePercentInput(field, value)
    /\ edits' = edits + 1
    /\ UNCHANGED <<evars, fvars>>

NumberInputEvent ==
    /\ edits < MaxEdits
    /\ \E field \in NumberFields, value \in NumberValues : bindValue(field, value)
    /\ edits' = edits + 1
    /\ UNCHANGED <<evars, fvars>>

\* the browser runs the oldest requestAnimationFrame callback
AnimationFrame ==
    /\ frames # <<>>
    /\ selectionRange' = [selectionRange EXCEPT ![Head(frames).field] = <<Head(frames).pos>>]
    /\ frames' = Tail(frames)
    /\ UNCHANGED <<revision, inputs, displayValues, outputs, event, edits, evars, fvars>>

Next ==
    \/ CurrencyInputEvent
    \/ PercentInputEvent
    \/ NumberInputEvent
    \/ AnimationFrame

Spec == Init /\ [][Next]_<<vars, evars, fvars>>

(***************************************************************************)
(* Claims about the page (checked under Spec)                              *)
(***************************************************************************)
\* C8: after any sequence of input events and number-field edits the displayed
\* result record is calculate applied to the current inputs
C8_OutputsAreCalculateOfInputs ==
    /\ revision = "+page.svelte"
         => outputs = calculate(inputs.originalLoanSize, inputs.originalLoanTerm,
                                inputs.rate, inputs.monthsPaid, inputs.downPayment,
                                inputs.newRate, inputs.newTerm, inputs.refiCostRate)
    /\ revision = "part_002" => outputs = calculateResults(inputs)

C8_Witness ==
    /\ edits = MaxEdits
    /\ inputs.originalLoanSize # DefaultInputs.originalLoanSize
    /\ inputs.newRate # DefaultInputs.newRate
    /\ revision = "part_002"
    /\ outputs = calculateResults(inputs)
    /\ outputs # calculateResults(DefaultInputs)
    /\ IsFinite(outputs.monthlySavings)

(***************************************************************************)
(* Claims about the default scenario (checked under SpecEngine)            *)
(***************************************************************************)
OutEquity == IF ecall.fn = "calculate" THEN ecall.out.current_equity
             ELSE ecall.out.currentEquity

OutRefiCost == IF ecall.fn = "calculate" THEN ecall.out.refi_cost
               ELSE ecall.out.refiCost

OutNewPayment == IF ecall.fn = "calculate" THEN ecall.out.new_monthly_payment
                 ELSE ecall.out.newMonthlyPayment

OutBreakeven == IF ecall.fn = "calculate" THEN ecall.out.months_to_breakeven
                ELSE ecall.out.monthsToBreakeven

\* C2: for the default scenario calculate yields, rounded to the two decimals of
\* the currency rows (one decimal for the months to breakeven), payment 3160.34,
\* balance 500000.00, equity 100000.00, new loan 500000.00, refinance cost
\* 5000.00, new payment 2684.11, monthly savings 476.23, total savings 171444.08
\* and 10.5 months to breakeven
C2_DefaultScenarioAtDisplayPrecision ==
    (IsCalc /\ einputs = DefaultInputs)
        => /\ RoundHalfExpand(OutPayment, 2) = Dec(316034, 2)
           /\ RoundHalfExpand(OutBalance, 2) = Int2Num(500000)
           /\ RoundHalfExpand(OutEquity, 2) = Int2Num(100000)
           /\ RoundHalfExpand(OutNewLoanSize, 2) = Int2Num(500000)
           /\ RoundHalfExpand(OutRefiCost, 2) = Int2Num(5000)
           /\ RoundHalfExpand(OutNewPayment, 2) = Dec(268411, 2)
           /\ RoundHalfExpand(OutMonthlySavings, 2) = Dec(47623, 2)
           /\ RoundHalfExpand(OutTotalSavings, 2) = Dec(17144408, 2)
           /\ RoundHalfExpand(OutBreakeven, 1) = Dec(105, 1)

(***************************************************************************)
(* Claims about the breakeven and about degenerate inputs                  *)
(***************************************************************************)
\* the quotient the engine documents: refiCostRate x newLoanSize / monthlySavings
RawBreakeven == Div(Mul(einputs.refiCostRate, OutNewLoanSize), OutMonthlySavings)

\* C12: monthsToBreakeven is the raw quotient refiCost / monthlySavings with refiCost
\* = refiCostRate x newLoanSize; it is negative when monthlySavings < 0 and
\* non-finite when monthlySavings = 0
C12_BreakevenIsRawQuotient ==
    IsCalc =>
        /\ OutRefiCost = Mul(einputs.refiCostRate, OutNewLoanSize)
        /\ OutBreakeven = RawBreakeven
        /\ Lt(OutMonthlySavings, Zero) => Lt(OutBreakeven, Zero)
        /\ IsZero(OutMonthlySavings) => ~IsFinite(OutBreakeven)

\* C12 (amended): monthsToBreakeven is the raw quotient; it is negative when
\* monthlySavings is negative and finite and refiCost > 0, and non-finite when
\* monthlySavings = 0
C12_BreakevenIsRawQuotientOfPositiveCost ==
    IsCalc =>
        /\ OutRefiCost = Mul(einputs.refiCostRate, OutNewLoanSize)
        /\ OutBreakeven = RawBreakeven
        /\ (/\ Lt(OutMonthlySavings, Zero)
            /\ IsFinite(OutMonthlySavings)
            /\ Gt(OutRefiCost, Zero)) => Lt(OutBreakeven, Zero)
        /\ IsZero(OutMonthlySavings) => ~IsFinite(OutBreakeven)

\* a refinance that costs more each month, with its negative breakeven
C12_Witness ==
    /\ ecall.fn = "calculate"
    /\ Lt(ecall.out.monthly_savings, Zero)
    /\ Gt(ecall.out.refi_cost, Zero)
    /\ Lt(ecall.out.months_to_breakeven, Zero)
    /\ IsFinite(ecall.out.months_to_breakeven)

\* the nine fields of a result, as each revision names them
ResultFields ==
    IF revision = "+page.svelte"
    THEN {"original_monthly_payment", "current_mortgage_balance", "current_equity",
          "new_loan_size", "refi_cost", "new_monthly_payment", "monthly_savings",
          "total_savings", "months_to_breakeven"}
    ELSE {"originalMonthlyPayment", "currentMortgageBalance", "currentEquity",
          "newLoanSize", "refiCost", "newMonthlyPayment", "monthlySavings",
          "totalSavings", "monthsToBreakeven"}

\* a complete result: nine fields, each a number, an infinity or NaN
CompleteResult(out) ==
    /\ DOMAIN out = ResultFields
    /\ \A f \in ResultFields : out[f].k \in {"fin", "inf", "nan"}

\* inputs in the ranges the data model gives them
ValidPageInputs(in) ==
    /\ Gt(in.originalLoanSize, Zero)
    /\ Gt(in.originalLoanTerm, Zero)
    /\ Le(Zero, in.rate)
    /\ Le(Zero, in.monthsPaid)
    /\ Lt(in.monthsPaid, Mul(in.originalLoanTerm, Int2Num(12)))
    /\ Le(Zero, in.downPayment)
    /\ Le(Zero, in.newRate)
    /\ Gt(in.newTerm, Zero)
    /\ Le(Zero, in.refiCostRate)

PaymentOf(out) == IF revision = "+page.svelte" THEN out.original_monthly_payment
                  ELSE out.originalMonthlyPayment

NewPaymentOf(out) == IF revision = "+page.svelte" THEN out.new_monthly_payment
                     ELSE out.newMonthlyPayment

SavingsOf(out) == IF revision = "+page.svelte" THEN out.monthly_savings
                  ELSE out.monthlySavings

BreakevenField == IF revision = "+page.svelte" THEN "months_to_breakeven"
                  ELSE "monthsToBreakeven"

BreakevenOf(out) == out[BreakevenField]

\* a normal result: every field a finite number, but for the breakeven of a
\* refinance that saves exactly nothing
NormalResult(out) ==
    \A f \in DOMAIN out :
        \/ IsFinite(out[f])
        \/ f = BreakevenField /\ IsZero(SavingsOf(out))

\* C13: calculate always returns a complete nine-field result; with a term of 0
\* periods the affected payment, and with monthly savings of 0 the breakeven, is NaN
\* or an infinity and not an error; and an edit that makes the inputs valid again
\* after such a result yields a normal result
C13_DegenerateInputsAreRecoverable ==
    /\ [](/\ CompleteResult(outputs)
          /\ IsZero(inputs.originalLoanTerm) => ~IsFinite(PaymentOf(outputs))
          /\ IsZero(inputs.newTerm) => ~IsFinite(NewPaymentOf(outputs))
          /\ IsZero(SavingsOf(outputs)) => ~IsFinite(BreakevenOf(outputs)))
    /\ [][(~NormalResult(outputs) /\ ValidPageInputs(inputs')) => NormalResult(outputs')]_vars

\* a result with NaN and an infinity in it is shown and another edit can follow
C13_Witness ==
    /\ edits < MaxEdits
    /\ IsZero(inputs.originalLoanTerm)
    /\ CompleteResult(outputs)
    /\ IsInf(PaymentOf(outputs))
    /\ \E f \in ResultFields : IsNaN(outputs[f])

(***************************************************************************)
(* Formatting and parsing utilities, src/unnamed/part_004                  *)
(***************************************************************************)
\* formatCurrency of part_004: `$${value.toLocaleString('en-US', CURRENCY_FORMAT_OPTIONS)}`
formatCurrency_part_004(value) == <<"$">> \o toLocaleString(value, 2, 2)

\* formatCurrencyOutput formatting as the input fields do
formatCurrencyOutput_AsInput(value) == toLocaleString(value, 0, 3)

\* formatCurrencyOutput of part_002, and the expression of the output rows of
\* +page.svelte: `$${value.toLocaleString('en-US', CURRENCY_FORMAT_OPTIONS)}`
formatCurrencyOutput(value) == <<"$">> \o toLocaleString(value, 2, 2)

Thousand == Int2Num(1000)

Million == Int2Num(1000000)

Billion == Mul(Thousand, Million)

\* formatCurrencyShort with the thresholds tested from the smallest up
formatCurrencyShort_SmallestFirst(value) ==
    LET absValue == AbsNum(value)
        sign     == IF Lt(value, Zero) THEN <<"-">> ELSE <<>>
    IN  IF Le(Thousand, absValue)
        THEN sign \o <<"$">> \o toFixed(Div(absValue, Thousand), 0) \o <<"k">>
        ELSE IF Le(Million, absValue)
        THEN sign \o <<"$">> \o toFixed(Div(absValue, Million), 1) \o <<"m">>
        ELSE IF Le(Billion, absValue)
        THEN sign \o <<"$">> \o toFixed(Div(absValue, Billion), 1) \o <<"b">>
        ELSE sign \o <<"$">> \o toFixed(absValue, 0)

formatCurrencyShort(value) ==
    LET absValue == AbsNum(value)
        sign     == IF Lt(value, Zero) THEN <<"-">> ELSE <<>>
    IN  IF Le(Billion, absValue)
        THEN sign \o <<"$">> \o toFixed(Div(absValue, Billion), 1) \o <<"b">>
        ELSE IF Le(Million, absValue)
        THEN sign \o <<"$">> \o toFixed(Div(absValue, Million), 1) \o <<"m">>
        ELSE IF Le(Thousand, absValue)
        THEN sign \o <<"$">> \o toFixed(Div(absValue, Thousand), 0) \o <<"k">>
        ELSE sign \o <<"$">> \o toFixed(absValue, 0)

\* parseCurrency of part_004: parseFloat(str.replace(COMMA_REGEX, '')), no fallback
parseCurrency_part_004(str) == parseFloat(RemoveAll(str, ","))

(***************************************************************************)
(* Utility specification: the formatters and parsers applied to bounded    *)
(* texts and numbers                                                       *)
(***************************************************************************)
\* texts handed to the parsers
TextArgs ==
    { <<>>, <<"a", "b", "c">>, <<"%">>, <<"%", "%">>, <<"6", ".", "5">>,
      <<"6", ".", "5", "%">>, <<"6", ".", "5", "0">>, <<"6", ".">>,
      <<"%", "6", "%", ".", "5">>, <<"5">>, <<"-", "5">>, <<".", "5">>, <<"-">>,
      <<"1", ",", "2", "3", "4">>, <<"5", "0", "0", ",", "0", "0", "0">>,
      <<"5", "0", "0", ",", "0", "0", "0", "7">>,
      <<"1", ",", "2", "3", "4", ".", "5", "6">>, <<"1", "2", "a", "b", "c">>,
      <<"$", "1", "0", "0">>, <<" ", "4", "2">>, <<"1", "e", "3">>,
      <<"I", "n", "f", "i", "n", "i", "t", "y">>, <<"N", "a", "N">>, <<"0">>,
      <<"0", ".", "0", "%">> }

\* numbers handed to the formatters
NumberArgs ==
    {Int2Num(n) : n \in {0, 7, 999, 1000, 1234, 1500, 500000, 999500, 999999, 1000000,
                         1234567, 999950000, 1000000000, -1, -999, -2300, -1200000}}
      \cup {Mul(Int2Num(25), Int2Num(100000000)), Mul(Int2Num(-25), Int2Num(100000000)),
            Dec(5, 1), Dec(-4, 1), Dec(9995, 1), Dec(12345, 1), Dec(12345678, 4),
            NaN, PosInf, NegInf}

UInit ==
    /\ einputs \in [type : {"string"}, str : TextArgs]
                      \cup [type : {"number"}, value : NumberArgs]
    /\ ecall = NoCall
    /\ PageNotMounted
    /\ FrogNotRendered

CallParseCurrency ==
    /\ ecall.fn = "none"
    /\ einputs.type = "string"
    /\ ecall' = [fn |-> "parseCurrency", args |-> <<einputs.str>>,
                 out |-> parseCurrency(einputs.str)]
    /\ UNCHANGED <<einputs, vars, fvars>>

CallParseCurrencyPart004 ==
    /\ ecall.fn = "none"
    /\ einputs.type = "string"
    /\ ecall' = [fn |-> "parseCurrency_part_004", args |-> <<einputs.str>>,
                 out |-> parseCurrency_part_004(einputs.str)]
    /\ UNCHANGED <<einputs, vars, fvars>>

CallParsePercent ==
    /\ ecall.fn = "none"
    /\ einputs.type = "string"
    /\ ecall' = [fn |-> "parsePercent", args |-> <<einputs.str>>,
                 out |-> parsePercent(einputs.str)]
    /\ UNCHANGED <<einputs, vars, fvars>>

CallFormatCurrency ==
    /\ ecall.fn = "none"
    /\ einputs.type = "number"
    /\ ecall' = [fn |-> "formatCurrency", args |-> <<einputs.value>>,
                 out |-> formatCurrency(einputs.value)]
    /\ UNCHANGED <<einputs, vars, fvars>>

CallFormatCurrencyPart004 ==
    /\ ecall.fn = "none"
    /\ einputs.type = "number"
    /\ ecall' = [fn |-> "formatCurrency_part_004", args |-> <<einputs.value>>,
                 out |-> formatCurrency_part_004(einputs.value)]
    /\ UNCHANGED <<einputs, vars, fvars>>

CallFormatCurrencyShort ==
    /\ ecall.fn = "none"
    /\ einputs.type = "number"
    /\ ecall' = [fn |-> "formatCurrencyShort", args |-> <<einputs.value>>,
                 out |-> formatCurrencyShort(einputs.value)]
    /\ UNCHANGED <<einputs, vars, fvars>>

CallFormatCurrencyOutput ==
    /\ ecall.fn = "none"
    /\ einputs.type = "number"
    /\ ecall' = [fn |-> "formatCurrencyOutput", args |-> <<einputs.value>>,
                 out |-> formatCurrencyOutput(einputs.value)]
    /\ UNCHANGED <<einputs, vars, fvars>>

UNext ==
    \/ CallFormatCurrencyOutput
    \/ CallParseCurrency
    \/ CallParseCurrencyPart004
    \/ CallParsePercent
    \/ CallFormatCurrency
    \/ CallFormatCurrencyPart004
    \/ CallFormatCurrencyShort

SpecUtils == UInit /\ [][UNext]_<<evars, vars, fvars>>

(***************************************************************************)
(* Claims about the formatters and parsers (checked under SpecUtils)       *)
(***************************************************************************)
IsParseCurrencyCall == ecall.fn \in {"parseCurrency", "parseCurrency_part_004"}

\* the text of a parser call once the function has cleaned it
CleanedArg ==
    IF ecall.fn = "parsePercent" THEN RemoveAll(ecall.args[1], "%")
    ELSE RemoveAll(ecall.args[1], ",")

\* C14: every parseCurrency and parsePercent function returns the number 0, never
\* NaN, for a text that is not a number after cleaning; in particular for
\* parseCurrency(""), parseCurrency("abc") and parsePercent("%")
C14_FailSoftParsing ==
    /\ ((IsParseCurrencyCall \/ ecall.fn = "parsePercent") /\ IsNaN(parseFloat(CleanedArg)))
          => ecall.out = Zero
    /\ (IsParseCurrencyCall /\ ecall.args[1] \in {<<>>, <<"a", "b", "c">>})
          => ecall.out = Zero
    /\ (ecall.fn = "parsePercent" /\ ecall.args[1] = <<"%">>) => ecall.out = Zero

\* a non-negative whole number
IsNonNegativeInteger(v) ==
    /\ IsFinite(v)
    /\ ~IsNeg(v)
    /\ v = Fin(FALSE, NShift(NDrop(v.mag, FracLimbs), FracLimbs))

\* C15: for every non-negative integer v, parseCurrency(formatCurrency(v)) = v, with
\* formatCurrency the comma-grouping variant of the input fields
C15_CurrencyRoundTrip ==
    (ecall.fn = "formatCurrency" /\ IsNonNegativeInteger(ecall.args[1]))
        => parseCurrency(ecall.out) = ecall.args[1]

C15_Witness ==
    /\ ecall.fn = "formatCurrency"
    /\ ecall.args[1] = Int2Num(1234567)
    /\ ecall.out = <<"1", ",", "2", "3", "4", ",", "5", "6", "7">>
    /\ parseCurrency(ecall.out) = Int2Num(1234567)

(***************************************************************************)
(* Claims about the editing protocols of the page (checked under Spec)     *)
(***************************************************************************)
\* the last input event was handled by the given handler
HandledBy(handler) == event.type = "input" /\ event.handler = handler

\* C16: the percent input handler stores parsePercent of the text: every '%' is
\* stripped, the rest parsed as a float (0 if unparsable) and divided by 100, so
\* "6.5" and "6.5%" give 0.065
C16_PercentTextIsStoredAsFraction ==
    HandledBy("handlePercentInput") =>
        /\ inputs[event.field] = parsePercent(event.value)
        /\ inputs[event.field] =
              Div(OrZero(parseFloat(SelectSeq(event.value, LAMBDA c : c # "%"))), Int2Num(100))
        /\ event.value \in {<<"6", ".", "5">>, <<"6", ".", "5", "%">>}
              => inputs[event.field] = Dec(65, 3)
        /\ event.value = <<"%">> => inputs[event.field] = Zero

C16_Witness ==
    /\ HandledBy("handlePercentInput")
    /\ event.field = "newRate"
    /\ event.value = <<"6", ".", "5", "%">>
    /\ inputs.newRate = Dec(65, 3)
    /\ inputs.newRate # DefaultInputs.newRate

\* C17: after an input event on a currency field the canonical input value is
\* parseCurrency of the raw text and the display value is formatCurrency of that
\* canonical value
C17_CurrencyFieldIsParsedAndReformatted ==
    HandledBy("handleCurrencyInput") =>
        /\ inputs[event.field] = parseCurrency(event.value)
        /\ displayValues[event.field] = formatCurrency(inputs[event.field])
        /\ event.value = <<"5", "0", "0", ",", "0", "0", "0", "7">>
              => /\ inputs[event.field] = Int2Num(5000007)
                 /\ displayValues[event.field] = <<"5", ",", "0", "0", "0", ",", "0", "0", "7">>
        /\ event.value = <<>>
              => inputs[event.field] = Zero /\ displayValues[event.field] = <<"0">>

C17_Witness ==
    /\ HandledBy("handleCurrencyInput")
    /\ event.field = "downPayment"
    /\ event.value = <<"5", "0", "0", ",", "0", "0", "0", "7">>
    /\ inputs.downPayment = Int2Num(5000007)
    /\ displayValues.downPayment = <<"5", ",", "0", "0", "0", ",", "0", "0", "7">>

\* C18: after an input event on a percent field the display value is exactly the
\* typed text with its '%' characters removed, not re-formatted: "6." stays "6."
C18_PercentDisplayIsTypedText ==
    HandledBy("handlePercentInput") =>
        displayValues[event.field] = SelectSeq(event.value, LAMBDA c : c # "%")

\* the number of digits of text to the left of cursor position pos
DigitsLeftOf(text, pos) == Cardinality({i \in 1..pos : i <= Len(text) /\ IsDigit(text[i])})

\* the number of grouping separators of text
Separators(text) == Cardinality({i \in 1..Len(text) : text[i] = ","})

\* the position the handler of the last event gives to setSelectionRange: that of
\* its requestAnimationFrame callback, waiting or already run
RestoredCursorPos ==
    IF frames # <<>> THEN frames[Len(frames)].pos ELSE selectionRange[event.field][1]

\* C19: after an input event on a currency field the restored cursor position is
\* within 0..length of the new display value, is the cursor position of the event
\* shifted by the number of grouping separators inserted or removed, and has the same
\* number of digits to its left as the cursor had in the typed text
C19_CursorKeepsItsDigits ==
    HandledBy("handleCurrencyInput") =>
        /\ RestoredCursorPos \in 0..Len(displayValues[event.field])
        /\ RestoredCursorPos = event.selectionStart
              + (Separators(displayValues[event.field]) - Separators(event.value))
        /\ DigitsLeftOf(displayValues[event.field], RestoredCursorPos)
              = DigitsLeftOf(event.value, event.selectionStart)

(***************************************************************************)
(* Claims about formatCurrencyShort (checked under SpecUtils)              *)
(***************************************************************************)
\* the suffix letter a short amount ends with, "" if it ends with a digit
SuffixOf(text) ==
    IF text # <<>> /\ text[Len(text)] \in {"k", "m", "b"} THEN text[Len(text)] ELSE ""

\* the number of characters of text after its decimal point, not counting a suffix
DecimalsOf(text) ==
    LET body == IF SuffixOf(text) = "" THEN text ELSE SubSeq(text, 1, Len(text) - 1)
    IN  IF \E i \in 1..Len(body) : body[i] = "."
        THEN Len(body) - (CHOOSE i \in 1..Len(body) : body[i] = ".")
        ELSE 0

\* the short form of one amount
ShortFormIs(v, text) == ecall.args[1] = v => ecall.out = text

IsOutputFormatCall == ecall.fn \in {"formatCurrencyOutput", "formatCurrency_part_004"}

\* text is '$', an optional '-', digits in comma-separated groups of three, a
\* decimal point and two digits
IsDollarsAndCents(text) ==
    LET n     == Len(text)
        first == IF n >= 2 /\ text[2] = "-" THEN 3 ELSE 2
    IN  /\ n >= first + 3
        /\ text[1] = "$"
        /\ text[n - 2] = "."
        /\ IsDigit(text[n - 1]) /\ IsDigit(text[n])
        /\ IsDigit(text[first])
        /\ \A i \in first..(n - 3) :
              IF (n - 2 - i) % 4 = 0 THEN text[i] = "," ELSE IsDigit(text[i])

\* text is whole: digits in comma-separated groups of three, no '$', no decimals
IsGroupedWhole(text) ==
    /\ text # <<>>
    /\ IsDigit(text[1])
    /\ \A i \in 1..Len(text) :
          IF (Len(text) + 1 - i) % 4 = 0 THEN text[i] = "," ELSE IsDigit(text[i])

\* C21: the output formatter renders every value with a leading '$', comma
\* thousands separators and exactly two decimals (1234.5 gives "$1,234.50"); the
\* input formatter is a different function, which renders whole numbers with
\* separators and without decimals (500000 gives "500,000")
C21_OutputFormatIsDollarsAndCents ==
    /\ IsOutputFormatCall =>
          /\ IsDollarsAndCents(ecall.out)
          /\ ecall.args[1] = Dec(12345, 1)
                => ecall.out = <<"$", "1", ",", "2", "3", "4", ".", "5", "0">>
    /\ (ecall.fn = "formatCurrency" /\ IsNonNegativeInteger(ecall.args[1])) =>
          /\ IsGroupedWhole(ecall.out)
          /\ ecall.out # formatCurrencyOutput(ecall.args[1])
          /\ ecall.args[1] = Int2Num(500000)
                => ecall.out = <<"5", "0", "0", ",", "0", "0", "0">>

\* C21 (amended): as C21, for every finite value
C21_OutputFormatIsDollarsAndCentsOfFiniteValues ==
    /\ (IsOutputFormatCall /\ IsFinite(ecall.args[1])) =>
          /\ IsDollarsAndCents(ecall.out)
          /\ ecall.args[1] = Dec(12345, 1)
                => ecall.out = <<"$", "1", ",", "2", "3", "4", ".", "5", "0">>
    /\ (ecall.fn = "formatCurrency" /\ IsNonNegativeInteger(ecall.args[1])) =>
          /\ IsGroupedWhole(ecall.out)
          /\ ecall.out # formatCurrencyOutput(ecall.args[1])
          /\ ecall.args[1] = Int2Num(500000)
                => ecall.out = <<"5", "0", "0", ",", "0", "0", "0">>

C21_Witness ==
    /\ ecall.fn = "formatCurrencyOutput"
    /\ ecall.args[1] = Dec(12345, 1)
    /\ ecall.out = <<"$", "1", ",", "2", "3", "4", ".", "5", "0">>

(***************************************************************************)
(* Claims about the down payment (checked under SpecEngine)                *)
(***************************************************************************)
\* down payments to compare a result with
OtherDownPayments == {Zero, Int2Num(50000)}

\* the result of the revision called, for the inputs with another down payment
ResultWithDownPayment(dp) ==
    IF ecall.fn = "calculate"
    THEN calculate(einputs.originalLoanSize, einputs.originalLoanTerm, einputs.rate,
                   einputs.monthsPaid, dp, einputs.newRate, einputs.newTerm,
                   einputs.refiCostRate)
    ELSE calculateResults([einputs EXCEPT !.downPayment = dp])

EquityField == IF ecall.fn = "calculate" THEN "current_equity" ELSE "currentEquity"

\* C22: currentEquity = originalLoanSize - currentMortgageBalance + downPayment, and
\* two input records that differ only in downPayment give results that agree on
\* every field but currentEquity
C22_DownPaymentAffectsOnlyEquity ==
    IsCalc =>
        /\ OutEquity = Add(Sub(einputs.originalLoanSize, OutBalance), einputs.downPayment)
        /\ \A dp \in OtherDownPayments :
              [ResultWithDownPayment(dp) EXCEPT ![EquityField] = OutEquity] = ecall.out

C22_Witness ==
    /\ ecall.fn = "calculateResults"
    /\ einputs.downPayment = Int2Num(100000)
    /\ IsFinite(ecall.out.currentEquity)
    /\ ResultWithDownPayment(Zero).currentEquity # ecall.out.currentEquity
    /\ ResultWithDownPayment(Zero).monthlySavings = ecall.out.monthlySavings

(***************************************************************************)
(* The Savings Analysis card of the results panel, rendered from outputs    *)
(***************************************************************************)
MonthsText == <<" ", "m", "o", "n", "t", "h", "s">>

\* what the card shows: its title, whether the warning box is there, and the rows
\* of the breakeven (empty when the row is not rendered)
SavingsAnalysisCard(rev, out) ==
    IF rev = "+page.svelte"
    THEN [title     |-> "Savings Analysis",
          warning   |-> FALSE,
          breakeven |-> <<toFixed(out.months_to_breakeven, 1) \o MonthsText>>]
    ELSE [title     |-> IF Gt(out.monthlySavings, Zero) THEN "Savings Analysis"
                        ELSE "Cost Analysis",
          warning   |-> Le(out.monthlySavings, Zero),
          breakeven |-> IF Gt(out.monthlySavings, Zero)
                        THEN <<toFixed(out.monthsToBreakeven, 1) \o MonthsText>>
                        ELSE <<>>]

\* C23: the panel shows the months to break even only when monthlySavings > 0 and
\* shows the cost warning (the 'Cost Analysis' state) exactly when monthlySavings <= 0;
\* a negative or non-finite breakeven is never displayed
C23_BreakevenShownOnlyForSavings ==
    LET card == SavingsAnalysisCard(revision, outputs)
    IN  /\ card.breakeven # <<>> => Gt(SavingsOf(outputs), Zero)
        /\ card.warning <=> Le(SavingsOf(outputs), Zero)
        /\ (card.title = "Cost Analysis") <=> Le(SavingsOf(outputs), Zero)
        /\ card.breakeven # <<>> =>
              /\ IsFinite(BreakevenOf(outputs))
              /\ ~Lt(BreakevenOf(outputs), Zero)

(***************************************************************************)
(* The frog component (src/unnamed/part_004, from line 30)                 *)
(***************************************************************************)
\* the delay handed to setTimeout, in milliseconds
CelebrationMs == 2000

\* time passes in steps of this many milliseconds
TickMs == 500

\* at most this many setTimeout callbacks are pending at once
MaxTimeouts == 2

\* the savings threshold of the celebration
FiveHundred == Int2Num(500)

celebrationEffect_PreviousNotRecorded(savings, previous, celebrating, pending) ==
    LET crossed == Gt(savings, FiveHundred) /\ Le(previous, FiveHundred)
    IN  [shouldCelebrate |-> IF crossed THEN TRUE ELSE celebrating,
         timeouts        |-> IF crossed THEN Append(pending, CelebrationMs) ELSE pending,
         previousSavings |-> previous]

\* the callback of $effect: on a crossing of the threshold it sets the flag and
\* starts a timer that clears it; it always records the savings it saw
celebrationEffect(savings, previous, celebrating, pending) ==
    LET crossed == Gt(savings, FiveHundred) /\ Le(previous, FiveHundred)
    IN  [shouldCelebrate |-> IF crossed THEN TRUE ELSE celebrating,
         timeouts        |-> IF crossed THEN Append(pending, CelebrationMs) ELSE pending,
         previousSavings |-> savings]

\* savings the parent passes to the component
SavingsValues == {Int2Num(400), FiveHundred, Int2Num(600), Int2Num(700), NaN}

\* the component after its script has run: the effect is created, not yet run
FInit ==
    /\ mounted = FALSE
    /\ monthlySavings \in SavingsValues
    /\ shouldCelebrate = FALSE
    /\ previousSavings = monthlySavings
    /\ timeouts = <<>>
    /\ einputs = DefaultInputs
    /\ ecall = NoCall
    /\ PageNotMounted

\* the effect has run with the given savings
EffectRun(savings) ==
    LET after == celebrationEffect(savings, previousSavings, shouldCelebrate, timeouts)
    IN  /\ Len(after.timeouts) <= MaxTimeouts
        /\ monthlySavings' = savings
        /\ shouldCelebrate' = after.shouldCelebrate
        /\ previousSavings' = after.previousSavings
        /\ timeouts' = after.timeouts

\* the component is mounted: the effect runs for the first time
Mount ==
    /\ ~mounted
    /\ mounted' = TRUE
    /\ EffectRun(monthlySavings)
    /\ UNCHANGED <<evars, vars>>

\* the parent passes different savings: the effect runs again
SetMonthlySavings ==
    /\ mounted
    /\ \E savings \in SavingsValues \ {monthlySavings} : EffectRun(savings)
    /\ UNCHANGED <<mounted, evars, vars>>

\* time passes while no timer is due
Tick ==
    /\ timeouts # <<>>
    /\ \A i \in DOMAIN timeouts : timeouts[i] > 0
    /\ timeouts' = [i \in DOMAIN timeouts |->
                       IF timeouts[i] > TickMs THEN timeouts[i] - TickMs ELSE 0]
    /\ UNCHANGED <<mounted, monthlySavings, shouldCelebrate, previousSavings, evars, vars>>

\* the oldest timer is due: its callback clears the flag
TimeoutFires ==
    /\ timeouts # <<>>
    /\ Head(timeouts) = 0
    /\ shouldCelebrate' = FALSE
    /\ timeouts' = Tail(timeouts)
    /\ UNCHANGED <<mounted, monthlySavings, previousSavings, evars, vars>>

FNext ==
    \/ Mount
    \/ SetMonthlySavings
    \/ Tick
    \/ TimeoutFires

SpecFrog == FInit /\ [][FNext]_<<evars, vars, fvars>>

\* timers run: time does not stop and a due callback is called
SpecFrogFair == SpecFrog /\ WF_fvars(Tick) /\ WF_fvars(TimeoutFires)

(***************************************************************************)
(* C24: the frog's flag shouldCelebrate is set to true exactly by an       *)
(* update that takes monthlySavings from at most 500 to more than 500:     *)
(* never when the savings stay above or below the threshold or fall, never *)
(* at mount, and no other step raises the flag.  A setting of the flag is  *)
(* seen by the timer it starts.                                            *)
(***************************************************************************)
C24_CelebratesExactlyOnUpwardCrossing ==
    [][LET crossed == /\ mounted
                      /\ Gt(monthlySavings', FiveHundred)
                      /\ Le(monthlySavings, FiveHundred)
           setTrue == /\ shouldCelebrate'
                      /\ timeouts' # <<>>
                      /\ Len(timeouts') > Len(timeouts)
       IN  /\ crossed <=> setTrue
           /\ (~shouldCelebrate /\ shouldCelebrate') => crossed
           /\ ~mounted => ~shouldCelebrate']_fvars

\* the flag is up after the savings rose from 500 to 600
C24_Witness ==
    /\ mounted
    /\ shouldCelebrate
    /\ monthlySavings = Int2Num(600)
    /\ Len(timeouts) = 1

(***************************************************************************)
(* C30: every celebration lasts its full 2000 ms and always ends: the flag *)
(* shouldCelebrate is cleared only when no celebration started later has   *)
(* time left on its timer (a crossing of 500 made while an earlier timer   *)
(* is pending gets its own 2000 ms), and a raised flag is cleared          *)
(* eventually.                                                             *)
(***************************************************************************)
C30_CelebrationLastsFullDurationAndEnds ==
    /\ [][(shouldCelebrate /\ ~shouldCelebrate') =>
              \A i \in DOMAIN timeouts' : timeouts'[i] = 0]_fvars
    /\ (shouldCelebrate ~> ~shouldCelebrate)

\* the part of C30 the component keeps: a raised flag is cleared eventually
CelebrationEnds == shouldCelebrate ~> ~shouldCelebrate

(***************************************************************************)
(* C25: an input event on one field changes that field only.  An event on  *)
(* a currency or percent field leaves the seven other inputs and the four  *)
(* other display values as they were; an edit of a number field            *)
(* (originalLoanTerm, monthsPaid, newTerm) leaves the seven other inputs   *)
(* and all five display values as they were.                               *)
(***************************************************************************)
C25_InputEventChangesOnlyItsField ==
    [][edits' # edits =>
         LET field         == event'.field
             otherInputs   == DOMAIN inputs \ {field}
             otherDisplays == DOMAIN displayValues \ {field}
         IN  /\ DOMAIN inputs' = DOMAIN inputs
             /\ DOMAIN displayValues' = DOMAIN displayValues
             /\ Cardinality(otherInputs) = 7
             /\ \A f \in otherInputs : inputs'[f] = inputs[f]
             /\ \A f \in otherDisplays : displayValues'[f] = displayValues[f]
             /\ field \in NumberFields => displayValues' = displayValues
             /\ field \notin NumberFields => Cardinality(otherDisplays) = 4]_vars

\* an event on the down payment field has changed that input and its display
\* value, and the loan size next to it is still the initial one
C25_Witness ==
    /\ edits = 1
    /\ event.type = "input"
    /\ event.field = "downPayment"
    /\ inputs.downPayment # DefaultInputs.downPayment
    /\ displayValues.downPayment = formatCurrency(inputs.downPayment)
    /\ inputs.originalLoanSize = DefaultInputs.originalLoanSize

(***************************************************************************)
(* C26: in every reachable state, the initial one included, each currency  *)
(* field's display value parses back to the stored input, whatever text    *)
(* the user typed (amounts with more than three decimal places included):  *)
(* parseCurrency(displayValues[field]) = inputs[field].                    *)
(***************************************************************************)
C26_CurrencyDisplayParsesToInput ==
    \A field \in CurrencyFields :
        NumEq(parseCurrency(displayValues[field]), inputs[field])

(***************************************************************************)
(* C27: in every reachable state, the initial one included, each percent   *)
(* field's stored input is the fraction its display value parses to:       *)
(* inputs[field] = parsePercent(displayValues[field]).                     *)
(***************************************************************************)
C27_PercentInputIsParsedDisplay ==
    \A field \in PercentFields :
        NumEq(inputs[field], parsePercent(displayValues[field]))

\* "6.5%" was typed into the new rate field: 6.5 is displayed, 0.065 stored
C27_Witness ==
    /\ event.type = "input"
    /\ event.handler = "handlePercentInput"
    /\ event.field = "newRate"
    /\ event.value = <<"6", ".", "5", "%">>
    /\ displayValues.newRate = <<"6", ".", "5">>
    /\ inputs.newRate = Dec(65, 3)

\* the call made is one of the present value of a payment stream
IsPresentValueCall == ecall.fn \in {"pv", "calculatePresentValue"}

(***************************************************************************)
(* C28: the present value has no term that is independent of the payment:  *)
(* for every rate and every number of periods n >= 0 the present value of  *)
(* a payment of 0 is 0, and for every rate and payment the present value   *)
(* over 0 periods is 0.                                                    *)
(***************************************************************************)
C28_PresentValueOfNothingIsZero ==
    (IsPresentValueCall /\ IsFinite(ecall.args[1]) /\ IsFinite(ecall.args[2])
        /\ ~IsNeg(ecall.args[2])) =>
        /\ IsZero(ecall.args[3]) => IsZero(ecall.out)
        /\ (IsZero(ecall.args[2]) /\ IsFinite(ecall.args[3])) => IsZero(ecall.out)

\* the number a short form shows between its '$' and its suffix
MantissaOf(text) ==
    LET unsigned == IF text # <<>> /\ text[1] = "-" THEN Tail(text) ELSE text
        body     == IF SuffixOf(unsigned) = "" THEN Tail(unsigned)
                    ELSE SubSeq(unsigned, 2, Len(unsigned) - 1)
    IN  parseFloat(body)

(***************************************************************************)
(* C29: formatCurrencyShort never shows a mantissa that belongs to the     *)
(* next suffix: the number before 'k' is in 1..999, the number before 'm'  *)
(* is in 1.0..999.9 and an unsuffixed number is in 0..999; so 999.5,       *)
(* 999500 and 999950000 do not give "$1000", "$1000k" and "$1000.0m".      *)
(***************************************************************************)
C29_ShortFormMantissaStaysBelowNextSuffix ==
    (ecall.fn = "formatCurrencyShort" /\ IsFinite(ecall.args[1])) =>
        LET text     == ecall.out
            suffix   == SuffixOf(text)
            mantissa == MantissaOf(text)
        IN  /\ suffix = "k" => Le(One, mantissa) /\ Le(mantissa, Int2Num(999))
            /\ suffix = "m" => Le(One, mantissa) /\ Le(mantissa, Dec(9999, 1))
            /\ suffix = "" => Le(Zero, mantissa) /\ Le(mantissa, Int2Num(999))
            /\ ecall.args[1] = Dec(9995, 1) => text # <<"$", "1", "0", "0", "0">>
            /\ ecall.args[1] = Int2Num(999500) => text # <<"$", "1", "0", "0", "0", "k">>
            /\ ecall.args[1] = Int2Num(999950000) =>
                  text # <<"$", "1", "0", "0", "0", ".", "0", "m">>

====
